---- MODULE Spec2Model ----
(***************************************************************************)
(* Model of eventrouter.New: the actor goroutine that owns the cache and   *)
(* the subscription table, the delivery goroutine of every subscription,   *)
(* and the public functions of the Router.                                 *)
(*                                                                         *)
(* All channels of the program are unbuffered, so every communication is   *)
(* a rendezvous: one action moves both the sender and the receiver.  A     *)
(* goroutine that waits at a send or a receive is a value of its pc.       *)
(*                                                                         *)
(* The router never inspects an item (ItemType any), so the item of the    *)
(* n-th Send the actor accepts is modelled by the number n: distinct tags  *)
(* make "the same item twice" visible.                                     *)
(***************************************************************************)
EXTENDS Integers, Sequences, FiniteSets, TLC

\* Bounds of the model.
MaxDepth == 2    \* largest cacheDepth given to New
MaxSends == 3    \* Send calls the actor accepts
MaxSubs  == 2    \* Subscribe/Tail calls the actor accepts
MaxCalls == 1    \* callers inside Items/Clear/Count

\* nextSubId = 1000
FirstSubId == 1000

VARIABLES
    cacheDepth,     \* New's cacheDepth argument
    cache,          \* actor: cache []ItemType
    nextSubId,      \* actor: nextSubId
    subscriptions,  \* actor: keys of the subscriptions map (a key names its channel)
    actor,          \* actor goroutine: where it is and its locals
    tasks,          \* per subscription id: the delivery goroutine of sub()
    routerDone,     \* the ctx given to New is done
    numSent,        \* number of Send requests the actor has taken from sendC
    calls,          \* callers inside Items()/Clear()/Count()
    strayAcked      \* ids of answered cancel requests for ids not in the table

vars == <<cacheDepth, cache, nextSubId, subscriptions, actor, tasks,
          routerDone, numSent, calls, strayAcked>>

CacheDepths == (0 - 1)..MaxDepth
SubIds == FirstSubId..(FirstSubId + MaxSubs - 1)
\* The ids a cancel request may name: the ids issued within the bounds and
\* one that is never issued.
CancelIds == FirstSubId..(FirstSubId + MaxSubs)
\* An id no subscription has: the broadcast loop has no channel left.
NoSub == FirstSubId - 1

Range(s) == {s[i] : i \in 1..Len(s)}

\* The actor waiting in its select, with no request in hand.
Idle == [pc |-> "select", item |-> 0, todo |-> {}, tgt |-> NoSub, replay |-> <<>>]

\* A subscription id for which sub() has not been called.
NoTask == [pc |-> "none", tail |-> FALSE, ctxDone |-> FALSE, snap |-> <<>>,
           regAt |-> 0, endAt |-> 0, received |-> <<>>]

\* The program died of an unrecovered panic: no goroutine runs any more.
Alive == actor.pc # "panicked"

\* Go's c[low:] on a slice of length Len(c): the elements from index low on.
SliceFrom(c, low) == SubSeq(c, low + 1, Len(c))

\* overflow := len(cache) + 1 - cacheDepth
Overflow(c, depth) == Len(c) + 1 - depth

\* cache[overflow-1:] panics (slice bounds out of range) when overflow-1 > len(cache).
EvictPanics(c, depth) ==
    /\ depth # 0
    /\ Overflow(c, depth) > 0
    /\ Overflow(c, depth) - 1 > Len(c)

\* The eviction without the test cacheDepth != 0.
EvictIgnoringZero(c, depth) ==
    IF Overflow(c, depth) > 0 THEN SliceFrom(c, Overflow(c, depth) - 1) ELSE c

\* An eviction that drops the newest items instead of the oldest.
EvictNewest(c, depth) ==
    IF depth # 0 /\ Overflow(c, depth) > 0
    THEN SubSeq(c, 1, Len(c) - (Overflow(c, depth) - 1))
    ELSE c

\* if cacheDepth != 0 { if overflow > 0 { cache = cache[overflow-1:] } }
Evict(c, depth) ==
    IF depth # 0 /\ Overflow(c, depth) > 0
    THEN SliceFrom(c, Overflow(c, depth) - 1)
    ELSE c

\* A replay that ignores the tail flag, and one that never replays.
ReplayAlways(tail, c) == c
ReplayNever(tail, c) == <<>>

\* if req.tail { for _, item := range cache { ... } }: the items to replay.
ReplayItems(tail, c) == IF tail THEN c ELSE <<>>

\* A removal that, for a key that is not there, removes the largest key.
DeleteSubNotFoundRemovesLast(subs, id) ==
    IF id \in subs \/ subs = {}
    THEN subs \ {id}
    ELSE subs \ {CHOOSE m \in subs : \A o \in subs : o <= m}

\* delete(subscriptions, req.id): no-op for a key the map does not hold.
DeleteSub(subs, id) == subs \ {id}

\* for _, sub := range subscriptions: the next channel the loop sends on
\* (map iteration order is unspecified), NoSub when the loop is over.
PickNext(todo) == IF todo = {} THEN {NoSub} ELSE todo

\* A delivery that hands the newest item to the callback's history first.
TaskAcceptOutOfOrder(id, item) ==
    [tasks EXCEPT ![id].pc = "callback", ![id].received = <<item>> \o @]

\* case update := <-resp.updateC: onItem(update.item)
TaskAccept(id, item) ==
    [tasks EXCEPT ![id].pc = "callback", ![id].received = Append(@, item)]

Init ==
    /\ cacheDepth \in CacheDepths
    /\ cache = <<>>
    /\ nextSubId = FirstSubId
    /\ subscriptions = {}
    /\ actor = Idle
    /\ tasks = [id \in SubIds |-> NoTask]
    /\ routerDone = FALSE
    /\ numSent = 0
    /\ calls = {}
    /\ strayAcked = {}

----
\* The actor goroutine.

\* case <-ctx.Done(): return
ActorExit ==
    /\ actor.pc = "select"
    /\ routerDone
    /\ actor' = [Idle EXCEPT !.pc = "exited"]
    /\ UNCHANGED <<strayAcked, cacheDepth, cache, nextSubId, subscriptions, tasks,
                   routerDone, numSent, calls>>

\* A Cancel case that an actor which has left its loop still serves.
ActorRecvCancelAfterExit(id) ==
    /\ actor.pc \in {"select", "exited"}
    /\ tasks[id].pc = "cancel"
    /\ subscriptions' = DeleteSub(subscriptions, id)
    /\ tasks' = [tasks EXCEPT ![id].pc = "done", ![id].endAt = numSent]
    /\ UNCHANGED <<strayAcked, cacheDepth, cache, nextSubId, actor, routerDone,
                   numSent, calls>>

\* A Cancel case that answers without the delete.
ActorRecvCancelNoDelete(id) ==
    /\ actor.pc = "select"
    /\ tasks[id].pc = "cancel"
    /\ tasks' = [tasks EXCEPT ![id].pc = "done", ![id].endAt = numSent]
    /\ UNCHANGED <<strayAcked, cacheDepth, cache, nextSubId, subscriptions,
                   actor, routerDone, numSent, calls>>

\* case req := <-cancelSubC: the rendezvous with the cancel closure called by
\* delivery goroutine id, the delete, and the reply the closure waits for.
ActorRecvCancel(id) ==
    /\ actor.pc = "select"
    /\ tasks[id].pc = "cancel"
    /\ subscriptions' = DeleteSub(subscriptions, id)
    /\ tasks' = [tasks EXCEPT ![id].pc = "done", ![id].endAt = numSent]
    /\ UNCHANGED <<strayAcked, cacheDepth, cache, nextSubId, actor, routerDone, numSent, calls>>

\* case req := <-cancelSubC for an id the table does not hold (never issued,
\* or already removed): the request is the handler's input, drawn from the
\* ids outside the table; the delete and the reply req.resp <- cancelSubRes{}.
StrayCancel(id) ==
    /\ actor.pc = "select"
    /\ id \notin subscriptions
    /\ id \notin strayAcked
    /\ subscriptions' = DeleteSub(subscriptions, id)
    /\ strayAcked' = strayAcked \cup {id}
    /\ UNCHANGED <<cacheDepth, cache, nextSubId, actor, tasks, routerDone,
                   numSent, calls>>

\* A Send that skips the broadcast loop.
ActorRecvSendNoBroadcast ==
    /\ actor.pc = "select"
    /\ numSent < MaxSends
    /\ numSent' = numSent + 1
    /\ actor' = [Idle EXCEPT !.pc = "broadcast", !.item = numSent + 1]
    /\ UNCHANGED <<strayAcked, cacheDepth, cache, nextSubId, subscriptions, tasks,
                   routerDone, calls>>

\* case req := <-sendC: the rendezvous with a caller of router.Send, and the
\* start of the broadcast loop.
ActorRecvSend ==
    /\ actor.pc = "select"
    /\ numSent < MaxSends
    /\ numSent' = numSent + 1
    /\ \E nxt \in PickNext(subscriptions) :
          actor' = [Idle EXCEPT !.pc = "broadcast", !.item = numSent + 1,
                                !.todo = subscriptions \ {nxt}, !.tgt = nxt]
    /\ UNCHANGED <<strayAcked, cacheDepth, cache, nextSubId, subscriptions, tasks,
                   routerDone, calls>>

\* sub <- updateMessage{item: req.item}: the delivery goroutine of actor.tgt
\* takes the item in its select; the loop moves to the next channel.
BroadcastHandOff ==
    /\ actor.pc = "broadcast"
    /\ actor.tgt # NoSub
    /\ tasks[actor.tgt].pc = "select"
    /\ tasks' = TaskAccept(actor.tgt, actor.item)
    /\ \E nxt \in PickNext(actor.todo) :
          actor' = [actor EXCEPT !.todo = @ \ {nxt}, !.tgt = nxt]
    /\ UNCHANGED <<strayAcked, cacheDepth, cache, nextSubId, subscriptions, routerDone,
                   numSent, calls>>

\* After the loop: eviction, append and the reply that lets Send return.
ActorSendFinish ==
    /\ actor.pc = "broadcast"
    /\ actor.tgt = NoSub
    /\ IF EvictPanics(cache, cacheDepth)
       THEN /\ actor' = [Idle EXCEPT !.pc = "panicked"]
            /\ UNCHANGED cache
       ELSE /\ cache' = Append(Evict(cache, cacheDepth), actor.item)
            /\ actor' = Idle
    /\ UNCHANGED <<strayAcked, cacheDepth, nextSubId, subscriptions, tasks, routerDone,
                   numSent, calls>>

\* A Subscribe case without nextSubId++ when nothing is replayed.
ActorRecvSubscribeNoIncrement(tail, done) ==
    /\ actor.pc = "select"
    /\ nextSubId < FirstSubId + MaxSubs
    /\ LET subId == nextSubId
           rl == ReplayItems(tail, cache)
       IN  /\ subscriptions' = subscriptions \cup {subId}
           /\ tasks' = [tasks EXCEPT ![subId] =
                  [pc |-> "select", tail |-> tail, ctxDone |-> done,
                   snap |-> cache, regAt |-> numSent, endAt |-> 0,
                   received |-> <<>>]]
           /\ IF rl = <<>>
              THEN actor' = Idle
              ELSE actor' = [Idle EXCEPT !.pc = "replay", !.tgt = subId,
                                        !.replay = rl]
           /\ UNCHANGED nextSubId
    /\ UNCHANGED <<strayAcked, cacheDepth, cache, routerDone, numSent, calls>>

\* case req := <-subscribeC: the rendezvous with sub(), the registration, the
\* reply (sub() then starts its delivery goroutine), and the start of the
\* replay.  tail is sub()'s flag; done tells whether the ctx given to sub() is
\* already done.  nextSubId++ comes after the replay.
ActorRecvSubscribe(tail, done) ==
    /\ actor.pc = "select"
    /\ nextSubId < FirstSubId + MaxSubs
    /\ LET subId == nextSubId
           rl == ReplayItems(tail, cache)
       IN  /\ subscriptions' = subscriptions \cup {subId}
           /\ tasks' = [tasks EXCEPT ![subId] =
                  [pc |-> "select", tail |-> tail, ctxDone |-> done,
                   snap |-> cache, regAt |-> numSent, endAt |-> 0,
                   received |-> <<>>]]
           /\ IF rl = <<>>
              THEN /\ actor' = Idle
                   /\ nextSubId' = nextSubId + 1
              ELSE /\ actor' = [Idle EXCEPT !.pc = "replay", !.tgt = subId,
                                            !.replay = rl]
                   /\ UNCHANGED nextSubId
    /\ UNCHANGED <<strayAcked, cacheDepth, cache, routerDone, numSent, calls>>

\* resp.updateC <- updateMessage{item: item}: the new delivery goroutine takes
\* the next replayed item; after the last one, nextSubId++.
ReplayHandOff ==
    /\ actor.pc = "replay"
    /\ tasks[actor.tgt].pc = "select"
    /\ tasks' = TaskAccept(actor.tgt, Head(actor.replay))
    /\ IF Len(actor.replay) = 1
       THEN /\ actor' = Idle
            /\ nextSubId' = nextSubId + 1
       ELSE /\ actor' = [actor EXCEPT !.replay = Tail(@)]
            /\ UNCHANGED nextSubId
    /\ UNCHANGED <<strayAcked, cacheDepth, cache, subscriptions, routerDone, numSent, calls>>

----
\* The delivery goroutine of a subscription.

\* case <-ctx.Done(): resp.cancel(): the goroutine now waits at
\* cancelSubC <- cancelReq.
TaskCtxDone(id) ==
    /\ Alive
    /\ tasks[id].pc = "select"
    /\ tasks[id].ctxDone
    /\ tasks' = [tasks EXCEPT ![id].pc = "cancel"]
    /\ UNCHANGED <<strayAcked, cacheDepth, cache, nextSubId, subscriptions, actor,
                   routerDone, numSent, calls>>

\* onItem returns; the goroutine is back at its select.
CallbackReturn(id) ==
    /\ Alive
    /\ tasks[id].pc = "callback"
    /\ tasks' = [tasks EXCEPT ![id].pc = "select"]
    /\ UNCHANGED <<strayAcked, cacheDepth, cache, nextSubId, subscriptions, actor,
                   routerDone, numSent, calls>>

----
\* The callers.

\* The ctx given to Subscribe/Tail becomes done.
SubCtxCancel(id) ==
    /\ Alive
    /\ tasks[id].pc \in {"select", "callback"}
    /\ ~tasks[id].ctxDone
    /\ tasks' = [tasks EXCEPT ![id].ctxDone = TRUE]
    /\ UNCHANGED <<strayAcked, cacheDepth, cache, nextSubId, subscriptions, actor,
                   routerDone, numSent, calls>>

\* The ctx given to New becomes done.
RouterCtxCancel ==
    /\ Alive
    /\ ~routerDone
    /\ routerDone' = TRUE
    /\ UNCHANGED <<strayAcked, cacheDepth, cache, nextSubId, subscriptions, actor, tasks,
                   numSent, calls>>

\* A caller that has built its request and waits at <-req.resp; submitted
\* tells whether the request was sent on a channel of the actor.
Waiting(op, submitted) == [op |-> op, submitted |-> submitted]

\* router.Items: req := getItemsReq{...}; res := <-req.resp.  The request is
\* sent on no channel (the actor has no case for it either).
RouterItems ==
    /\ Alive
    /\ Cardinality(calls) < MaxCalls
    /\ Waiting("Items", FALSE) \notin calls
    /\ calls' = calls \cup {Waiting("Items", FALSE)}
    /\ UNCHANGED <<strayAcked, cacheDepth, cache, nextSubId, subscriptions, actor, tasks,
                   routerDone, numSent>>

\* router.Clear: req := clearItemsReq{...}; <-req.resp.  Nothing is sent on
\* clearC, so the actor's case req := <-clearC never runs.
RouterClear ==
    /\ Alive
    /\ Cardinality(calls) < MaxCalls
    /\ Waiting("Clear", FALSE) \notin calls
    /\ calls' = calls \cup {Waiting("Clear", FALSE)}
    /\ UNCHANGED <<strayAcked, cacheDepth, cache, nextSubId, subscriptions, actor, tasks,
                   routerDone, numSent>>

\* router.Count: req := countItemsReq{...}; resp := <-req.resp.  Nothing is
\* sent on countC, so the actor's case req := <-countC never runs.
RouterCount ==
    /\ Alive
    /\ Cardinality(calls) < MaxCalls
    /\ Waiting("Count", FALSE) \notin calls
    /\ calls' = calls \cup {Waiting("Count", FALSE)}
    /\ UNCHANGED <<strayAcked, cacheDepth, cache, nextSubId, subscriptions, actor, tasks,
                   routerDone, numSent>>

----
Next ==
    \/ ActorExit
    \/ \E id \in SubIds : ActorRecvCancel(id)
    \/ ActorRecvSend
    \/ BroadcastHandOff
    \/ ActorSendFinish
    \/ \E tail \in BOOLEAN, done \in BOOLEAN : ActorRecvSubscribe(tail, done)
    \/ ReplayHandOff
    \/ \E id \in SubIds : TaskCtxDone(id)
    \/ \E id \in SubIds : CallbackReturn(id)
    \/ \E id \in SubIds : SubCtxCancel(id)
    \/ RouterCtxCancel
    \/ RouterItems
    \/ RouterClear
    \/ RouterCount

Spec == Init /\ [][Next]_vars

\* The Go scheduler runs every goroutine that can take a step: the actor and
\* the delivery goroutines do not stop while a step of theirs stays possible,
\* and onItem returns.  Callers are free never to call Send, Subscribe or Tail
\* again, and a ctx is free never to end.
Fairness ==
    /\ WF_vars(ActorExit)
    /\ WF_vars(BroadcastHandOff)
    /\ WF_vars(ActorSendFinish)
    /\ WF_vars(ReplayHandOff)
    /\ \A id \in SubIds :
          /\ WF_vars(ActorRecvCancel(id))
          /\ WF_vars(TaskCtxDone(id))
          /\ WF_vars(CallbackReturn(id))

FairSpec == Spec /\ Fairness

\* The program together with cancel requests for ids outside the table: in
\* New itself only the cancel closure sends on cancelSubC, once per
\* subscription, so the actor's Cancel case meets such an id only here.
CancelNext == Next \/ \E id \in CancelIds : StrayCancel(id)

CancelSpec == Init /\ [][CancelNext]_vars

----
\* What the claims speak about.

\* Number of Sends the actor has processed to the end (appended and answered).
Processed == IF actor.pc \in {"broadcast", "panicked"} THEN numSent - 1 ELSE numSent

\* The items x(from+1), ..., x(to) in Send order.
SentItems(from, to) == [i \in 1..(to - from) |-> from + i]

\* C1: with cache depth k >= 1 the cache never holds more than k items.
C1_CacheWithinDepth == cacheDepth >= 1 => Len(cache) <= cacheDepth

\* C2: with cache depth k >= 1, after n > k Sends and no Clear the cache is
\* exactly the last k items, in Send order.
C2_LastKItems ==
    (cacheDepth >= 1 /\ Processed > cacheDepth)
        => cache = SentItems(Processed - cacheDepth, Processed)

\* C8: with a cache depth below 1, negative ones included, the actor never
\* fails while processing a Send and no item is ever evicted.
C8_BelowOneUnbounded ==
    cacheDepth < 1 => (actor.pc # "panicked" /\ cache = SentItems(0, Processed))

\* C9: with cache depth 0, after Sends x1..xn and no Clear, the cache is
\* exactly [x1, ..., xn].
C9_UnboundedKeepsAll == cacheDepth = 0 => cache = SentItems(0, Processed)

\* C9 witness: depth 0 and three Sends processed to the end.
C9_Witness == cacheDepth = 0 /\ actor.pc = "select" /\ numSent >= 3 /\ Len(cache) >= 3

\* C3: every call to Items(), Clear() or Count() submits its transaction to
\* the actor (and is then answered): no caller waits for a reply to a request
\* that was never submitted.
C3_CallsSubmitted == \A c \in calls : c.submitted

\* C10: a Clear empties the cache and leaves the subscription table as it
\* was: the step a Clear() call takes ends with an empty cache and the same
\* subscriptions.
C10_ClearEmptiesCache ==
    [][(Waiting("Clear", FALSE) \in calls' \ calls)
          => (cache' = <<>> /\ subscriptions' = subscriptions)]_vars

\* The items a subscription has been handed so far, by the actor's history:
\* what was replayed to it, then the Sends broadcast to it.
Replayed(id) ==
    IF actor.pc = "replay" /\ actor.tgt = id
    THEN SubSeq(tasks[id].snap, 1, Len(tasks[id].snap) - Len(actor.replay))
    ELSE tasks[id].snap

\* Number of the last Send whose broadcast has reached subscription id.
LiveEnd(id) ==
    IF id \in subscriptions
    THEN IF actor.pc = "broadcast" /\ id \in actor.todo \cup {actor.tgt}
         THEN numSent - 1
         ELSE numSent
    ELSE tasks[id].endAt

Live(id) == SentItems(tasks[id].regAt, LiveEnd(id))

NoDuplicates(s) == \A i, j \in 1..Len(s) : s[i] = s[j] => i = j

\* C4: a Tail subscription is handed, exactly once each and in order, the
\* items in the cache when the actor processed its registration and then the
\* item of every Send processed while it is registered; at every moment what
\* it has received is exactly the part of that sequence the actor has reached.
C4_TailExactlyOnce ==
    \A id \in SubIds :
        (tasks[id].pc # "none" /\ tasks[id].tail)
            => /\ tasks[id].received = Replayed(id) \o Live(id)
               /\ NoDuplicates(tasks[id].received)

\* C4 witness: a Tail subscription that got a replayed item and then a live
\* one, the actor being back at its select.
C4_Witness ==
    \E id \in SubIds :
        /\ tasks[id].tail
        /\ actor.pc = "select"
        /\ tasks[id].snap # <<>>
        /\ Len(tasks[id].received) > Len(tasks[id].snap)

\* C5: a Subscribe (non-tail) subscription never receives an item sent
\* before its registration, whatever the cache holds, and receives exactly
\* once, in order, every item sent while it is registered.
C5_SubscribeFutureOnly ==
    \A id \in SubIds :
        (tasks[id].pc # "none" /\ ~tasks[id].tail)
            => /\ tasks[id].received = Live(id)
               /\ \A i \in 1..Len(tasks[id].received) :
                     tasks[id].received[i] > tasks[id].regAt

\* C5 witness: a non-tail subscription registered while the cache held an
\* item, which then received a later item.
C5_Witness ==
    \E id \in SubIds :
        /\ tasks[id].pc # "none"
        /\ ~tasks[id].tail
        /\ tasks[id].snap # <<>>
        /\ tasks[id].received # <<>>
        /\ actor.pc = "select"

Occurrences(x, s) == Cardinality({i \in 1..Len(s) : s[i] = x})

\* The step in which the actor answers a Send, so that Send returns.
SendReturns == actor.pc = "broadcast" /\ actor'.pc = "select"

\* C6: when a Send returns, every subscription in the table has accepted
\* exactly one copy of its item and the item is the one new entry of the
\* cache; while the broadcast is going on the item is not yet in the cache.
C6_SendReturnsAfterBroadcast ==
    [][/\ SendReturns =>
            /\ \A id \in subscriptions :
                  Occurrences(actor.item, tasks'[id].received) = 1
            /\ Occurrences(actor.item, cache') = 1
            /\ cache'[Len(cache')] = actor.item
       /\ actor'.pc = "broadcast" => actor'.item \notin Range(cache')]_vars

\* C6 witness: a Send has returned with two subscriptions in the table, both
\* of which received its item, and the item is the last entry of the cache.
C6_Witness ==
    /\ actor.pc = "select"
    /\ numSent >= 1
    /\ Cardinality(subscriptions) >= 2
    /\ \A id \in subscriptions : numSent \in Range(tasks[id].received)
    /\ cache # <<>>
    /\ cache[Len(cache)] = numSent

\* The actor loop is running: it has neither returned nor died.
ActorRunning == actor.pc \notin {"exited", "panicked"}

\* C7: when the cancellation scope of a subscriber ends while the actor is
\* running, its cancel transaction is eventually processed: the subscription
\* leaves the table and its delivery goroutine terminates.
C7_CancelEventuallyProcessed ==
    \A id \in SubIds :
        [](  (tasks[id].pc # "none" /\ tasks[id].ctxDone /\ ActorRunning)
          => <>(\/ (tasks[id].pc = "done" /\ id \notin subscriptions)
                \/ ~ActorRunning))

Position(x, s) == CHOOSE i \in 1..Len(s) : s[i] = x

\* C11: every subscriber is handed items in the order the actor processed
\* their Sends, so two subscribers that both receive x and y receive them in
\* the same relative order.
C11_SameRelativeOrder ==
    /\ \A id \in SubIds :
          \A i, j \in 1..Len(tasks[id].received) :
              i < j => tasks[id].received[i] < tasks[id].received[j]
    /\ \A a, b \in SubIds :
          \A x, y \in Range(tasks[a].received) \cap Range(tasks[b].received) :
              (Position(x, tasks[a].received) < Position(y, tasks[a].received))
                  <=> (Position(x, tasks[b].received) < Position(y, tasks[b].received))

\* C11 witness: two subscribers have both received the same two items.
C11_Witness ==
    \E a, b \in SubIds :
        /\ a # b
        /\ Cardinality(Range(tasks[a].received) \cap Range(tasks[b].received)) >= 2

\* C12: once the actor has processed the cancel of a subscription, the
\* subscription is out of the table, no broadcast has it as a target, and it
\* has been handed no item of a Send later than its cancel.
C12_NothingAfterCancel ==
    \A id \in SubIds :
        tasks[id].pc = "done"
            => /\ id \notin subscriptions
               /\ id \notin actor.todo \cup {actor.tgt}
               /\ \A i \in 1..Len(tasks[id].received) :
                     tasks[id].received[i] <= tasks[id].endAt

\* C12 witness: a subscription was cancelled after receiving an item, a
\* later Send was processed to the end, and another subscription got it.
C12_Witness ==
    \E id, other \in SubIds :
        /\ tasks[id].pc = "done"
        /\ tasks[id].received # <<>>
        /\ actor.pc = "select"
        /\ numSent > tasks[id].endAt
        /\ numSent \in Range(tasks[other].received)

\* C13: a cancel transaction for an id that is unknown or already removed is
\* answered and leaves the cache, the id counter, the table and every
\* subscription unchanged.
C13_CancelIdempotent ==
    [][strayAcked' # strayAcked
          => /\ \E id \in CancelIds \ subscriptions : strayAcked' = strayAcked \cup {id}
             /\ UNCHANGED <<cache, nextSubId, subscriptions, tasks, actor>>]_vars

\* C13 witness: with an item cached and a subscription in the table, both a
\* cancel for an already removed id and one for a never issued id were
\* answered.
C13_Witness ==
    /\ cache # <<>>
    /\ subscriptions # {}
    /\ \E id \in strayAcked \cap SubIds : tasks[id].pc = "done"
    /\ (FirstSubId + MaxSubs) \in strayAcked
\* C14: after the actor loop has exited, no transaction is processed or
\* answered again: the actor stays exited, no Send or registration is taken,
\* no cancel is answered, no item is handed over, and the cache and the
\* subscription table keep their values.
C14_NothingAfterExit ==
    [][actor.pc = "exited"
          => /\ actor' = actor
             /\ UNCHANGED <<cache, subscriptions, nextSubId, numSent>>
             /\ \A id \in SubIds :
                   /\ tasks'[id].received = tasks[id].received
                   /\ tasks[id].pc = "none" => tasks'[id].pc = "none"
                   /\ tasks[id].pc = "cancel" => tasks'[id].pc = "cancel"]_vars

\* C14 witness: the actor has exited with an item cached, and a delivery
\* goroutine whose scope ended waits with its cancel request.
C14_Witness ==
    /\ actor.pc = "exited"
    /\ cache # <<>>
    /\ \E id \in SubIds : tasks[id].pc = "cancel" /\ id \in subscriptions
\* C15: a Tail registration cannot stall the actor for ever: the replay
\* step always finishes, also when the new subscriber's scope ends before or
\* during the replay.
C15_ReplayFinishes == [](actor.pc = "replay" => <>(actor.pc # "replay"))

\* C16: once the actor loop has terminated, every delivery goroutine
\* eventually terminates.
C16_TasksEndAfterExit ==
    [](actor.pc = "exited"
          => <>(\A id \in SubIds : tasks[id].pc \in {"none", "done"}))

\* C17: eviction only removes the oldest items: the cache is a contiguous
\* suffix, in order, of the Sends processed (no Clear is ever processed), and
\* once a Send is processed its last element is the most recent item.
C17_CacheIsSuffix ==
    /\ Len(cache) <= Processed
    /\ cache = SentItems(Processed - Len(cache), Processed)
    /\ (Processed >= 1 /\ Alive) => (cache # <<>> /\ cache[Len(cache)] = Processed)

\* C17 witness: with a bounded cache an eviction has dropped an item.
C17_Witness ==
    /\ cacheDepth >= 1
    /\ actor.pc = "select"
    /\ cache # <<>>
    /\ Len(cache) < Processed
\* The ids issued so far.
Issued == {id \in SubIds : tasks[id].pc # "none"}

C19_SendEventuallyReturns == [](actor.pc = "broadcast" => <>(actor.pc # "broadcast"))

====
